---------------------------- MODULE Spec2Model ----------------------------
(***************************************************************************)
(* koa-graphql-typescript: the graphqlHTTP Koa middleware.                 *)
(*                                                                         *)
(* One request is followed through src/src/index.ts (graphqlHTTP),         *)
(* src/src/option.ts (parseOptions), src/src/graphql-param.ts              *)
(* (getGraphQLParams), parse-body.ts (src/unnamed/part_002, lines 1-138:   *)
(* readBody, parseBody) and parse-query.ts (src/unnamed/part_001:          *)
(* parseQuery).                                                            *)
(*                                                                         *)
(* Texts (header values, bodies, query-string values) are sequences of     *)
(* one-character strings, so that prefix tests, lower-casing, the          *)
(* jsonObjRegex and JSON.parse are computed and not assumed.               *)
(* JavaScript values are records tagged by the field t.                    *)
(***************************************************************************)
EXTENDS Integers, Sequences, FiniteSets, TLC

(***************************************************************************)
(* JavaScript values                                                       *)
(***************************************************************************)
UNDEF == [t |-> "undefined"]
NULL == [t |-> "null"]
BUFFER == [t |-> "buffer"]
PROMISE == [t |-> "promise"]
Str(s) == [t |-> "string", v |-> s]
Num(n) == [t |-> "number", v |-> n]
Bool(b) == [t |-> "boolean", v |-> b]
Arr(a) == [t |-> "array", v |-> a]
\* an object is a function from property names (texts) to values
Obj(f) == [t |-> "object", v |-> f]
EmptyObj == Obj(<<>>)

\* the typeof operator
TypeOf(x) ==
  CASE x.t \in {"null", "array", "object", "buffer", "promise"} -> "object"
    [] OTHER -> x.t

\* ToBoolean: undefined, null, "", 0 and false are falsy
Truthy(x) ==
  CASE x.t \in {"undefined", "null"} -> FALSE
    [] x.t = "string" -> x.v # <<>>
    [] x.t = "number" -> x.v # 0
    [] x.t = "boolean" -> x.v
    [] OTHER -> TRUE

\* a || b
Coalesce_Or(a, b) == IF Truthy(a) THEN a ELSE b
\* a ?? b
Coalesce(a, b) == IF a.t \in {"undefined", "null"} THEN b ELSE a

\* property read o.k on an object value
Get(o, k) == IF o.t = "object" /\ k \in DOMAIN o.v THEN o.v[k] ELSE UNDEF

\* the mapping f with property k set to x (a later duplicate key wins)
Put(f, k, x) == [j \in (DOMAIN f) \cup {k} |-> IF j = k THEN x ELSE f[j]]

(***************************************************************************)
(* Texts                                                                   *)
(***************************************************************************)
Upper == <<"A", "B", "C", "D", "E", "F", "G", "H", "I", "J", "K", "L", "M",
           "N", "O", "P", "Q", "R", "S", "T", "U", "V", "W", "X", "Y", "Z">>
Lower == <<"a", "b", "c", "d", "e", "f", "g", "h", "i", "j", "k", "l", "m",
           "n", "o", "p", "q", "r", "s", "t", "u", "v", "w", "x", "y", "z">>
Digits == <<"0", "1", "2", "3", "4", "5", "6", "7", "8", "9">>

LowerChar(c) ==
  IF \E i \in DOMAIN Upper : Upper[i] = c
  THEN Lower[CHOOSE i \in DOMAIN Upper : Upper[i] = c]
  ELSE c

\* String.prototype.toLowerCase
ToLowerCase(s) == [i \in DOMAIN s |-> LowerChar(s[i])]

\* String.prototype.startsWith
StartsWith(s, p) == Len(s) >= Len(p) /\ SubSeq(s, 1, Len(p)) = p

IsDigit(c) == \E i \in DOMAIN Digits : Digits[i] = c
DigitVal(c) == (CHOOSE i \in DOMAIN Digits : Digits[i] = c) - 1

\* texts used by the code
T_utf8 == <<"u", "t", "f", "-", "8">>
T_utfPrefix == <<"u", "t", "f", "-">>
T_identity == <<"i", "d", "e", "n", "t", "i", "t", "y">>
T_deflate == <<"d", "e", "f", "l", "a", "t", "e">>
T_gzip == <<"g", "z", "i", "p">>
K_query == <<"q", "u", "e", "r", "y">>
K_variables == <<"v", "a", "r", "i", "a", "b", "l", "e", "s">>
K_operationName ==
  <<"o", "p", "e", "r", "a", "t", "i", "o", "n", "N", "a", "m", "e">>
K_raw == <<"r", "a", "w">>

(***************************************************************************)
(* JSON.parse, on the JSON grammar without string escapes, fractions and   *)
(* exponents: whitespace, true, false, null, integers, strings, arrays and *)
(* objects.  A parse step returns [ok, val, pos]: pos is the index after   *)
(* the value.                                                              *)
(***************************************************************************)
JsonWs == {" ", "\t", "\n", "\r"}
Fail == [ok |-> FALSE, val |-> UNDEF, pos |-> 0]
Ok(x, p) == [ok |-> TRUE, val |-> x, pos |-> p]

RECURSIVE SkipWs(_, _)
SkipWs(s, i) == IF i <= Len(s) /\ s[i] \in JsonWs THEN SkipWs(s, i + 1) ELSE i

Matches(s, i, lit) ==
  i + Len(lit) - 1 <= Len(s) /\ SubSeq(s, i, i + Len(lit) - 1) = lit

RECURSIVE ParseDigits(_, _, _)
ParseDigits(s, i, acc) ==
  IF i <= Len(s) /\ IsDigit(s[i])
  THEN ParseDigits(s, i + 1, 10 * acc + DigitVal(s[i]))
  ELSE Ok(Num(acc), i)

\* a JSON number: "-"? then "0" or a digit sequence without a leading zero
ParseNumber(s, i) ==
  LET neg == i <= Len(s) /\ s[i] = "-"
      j == IF neg THEN i + 1 ELSE i
  IN IF j > Len(s) \/ ~IsDigit(s[j]) THEN Fail
     ELSE LET r == IF s[j] = "0" THEN Ok(Num(0), j + 1) ELSE ParseDigits(s, j, 0)
          IN IF neg THEN Ok(Num(0 - r.val.v), r.pos) ELSE r

\* index of the first c in s at or after i, or Len(s) + 1
IndexOf(s, c, i) ==
  IF \E j \in i..Len(s) : s[j] = c
  THEN CHOOSE j \in i..Len(s) : s[j] = c /\ \A k \in i..(j - 1) : s[k] # c
  ELSE Len(s) + 1

\* a JSON string whose opening quote is at i - 1; control characters and the
\* backslash end the supported grammar
ParseChars(s, i) ==
  LET e == IndexOf(s, "\"", i)
  IN IF e > Len(s) \/ \E k \in i..(e - 1) : s[k] \in {"\t", "\n", "\r", "\\"}
     THEN Fail
     ELSE Ok(Str(SubSeq(s, i, e - 1)), e + 1)

RECURSIVE ParseValue(_, _)
RECURSIVE ParseElements(_, _, _)
RECURSIVE ParseMembers(_, _, _)

\* after "[" and at least the start of an element
ParseElements(s, i, acc) ==
  LET r == ParseValue(s, i)
  IN IF ~r.ok THEN Fail
     ELSE LET j == SkipWs(s, r.pos)
          IN IF j > Len(s) THEN Fail
             ELSE IF s[j] = "]" THEN Ok(Arr(Append(acc, r.val)), j + 1)
             ELSE IF s[j] = "," THEN ParseElements(s, j + 1, Append(acc, r.val))
             ELSE Fail

\* after "{" or ",": a member "key" : value
ParseMembers(s, i, acc) ==
  LET k == SkipWs(s, i)
  IN IF k > Len(s) \/ s[k] # "\"" THEN Fail
     ELSE LET key == ParseChars(s, k + 1)
          IN IF ~key.ok THEN Fail
             ELSE LET c == SkipWs(s, key.pos)
                  IN IF c > Len(s) \/ s[c] # ":" THEN Fail
                     ELSE LET r == ParseValue(s, c + 1)
                          IN IF ~r.ok THEN Fail
                             ELSE LET j == SkipWs(s, r.pos)
                                      f == Put(acc, key.val.v, r.val)
                                  IN IF j > Len(s) THEN Fail
                                     ELSE IF s[j] = "}" THEN Ok(Obj(f), j + 1)
                                     ELSE IF s[j] = "," THEN ParseMembers(s, j + 1, f)
                                     ELSE Fail

ParseValue(s, i0) ==
  LET i == SkipWs(s, i0)
  IN IF i > Len(s) THEN Fail
     ELSE IF Matches(s, i, <<"t", "r", "u", "e">>) THEN Ok(Bool(TRUE), i + 4)
     ELSE IF Matches(s, i, <<"f", "a", "l", "s", "e">>) THEN Ok(Bool(FALSE), i + 5)
     ELSE IF Matches(s, i, <<"n", "u", "l", "l">>) THEN Ok(NULL, i + 4)
     ELSE IF s[i] = "\"" THEN ParseChars(s, i + 1)
     ELSE IF s[i] = "[" THEN
       LET j == SkipWs(s, i + 1)
       IN IF j <= Len(s) /\ s[j] = "]" THEN Ok(Arr(<<>>), j + 1)
          ELSE ParseElements(s, i + 1, <<>>)
     ELSE IF s[i] = "{" THEN
       LET j == SkipWs(s, i + 1)
       IN IF j <= Len(s) /\ s[j] = "}" THEN Ok(EmptyObj, j + 1)
          ELSE ParseMembers(s, i + 1, <<>>)
     ELSE ParseNumber(s, i)

\* JSON.parse(s): [ok |-> FALSE] stands for the SyntaxError it throws
JSONParse(s) ==
  LET r == ParseValue(s, 1)
  IN IF r.ok /\ SkipWs(s, r.pos) = Len(s) + 1 THEN r ELSE Fail

(***************************************************************************)
(* Failures.  status is the JavaScript value of error.status: UNDEF on a   *)
(* plain Error or TypeError.                                               *)
(***************************************************************************)
\* httpError(status, message)
HttpError(status, tag) == [status |-> Num(status), tag |-> tag]
\* new Error(message), or an error thrown by a library without a status
PlainError(tag) == [status |-> UNDEF, tag |-> tag]
\* an error wrapper that keeps the raw error's status, if any, and no other
HttpErrorFrom_Raw(status, raw, tag) == [status |-> raw.status, tag |-> tag]
\* httpError(status, rawError): http-errors keeps the Error it is given and
\* its status (rawError.status || status)
HttpErrorFrom(status, raw, tag) ==
  [status |-> IF Truthy(raw.status) THEN raw.status ELSE Num(status), tag |-> tag]

(***************************************************************************)
(* parse-body.ts                                                           *)
(***************************************************************************)
\* a decoder that takes every encoding for a stream it can read
decompressed_Any(encoding) == TRUE
\* decompressed(req, encoding): TRUE when a stream is returned, FALSE when it
\* throws httpError(415)
decompressed(encoding) == encoding \in {T_identity, T_deflate, T_gzip}

\* Results of readBody and parseBody: ok with val, or not ok with err; read
\* tells whether getBody consumed the request stream.
Returned(x, rd) == [ok |-> TRUE, val |-> x, err |-> PlainError("none"), read |-> rd]
Thrown(e, rd) == [ok |-> FALSE, val |-> UNDEF, err |-> e, read |-> rd]

\* readBody(req, typeInfo).  req.stream is what getBody(stream, ...) does:
\* [ok |-> TRUE, text |-> ...] or [ok |-> FALSE, raw |-> the error it rejects with].
readBody(req, typeInfo) ==
  LET charset == IF typeInfo.charset.t = "string"
                 THEN ToLowerCase(typeInfo.charset.v) ELSE T_utf8
      encoding == IF TypeOf(req.contentEncoding) = "string"
                  THEN ToLowerCase(req.contentEncoding.v) ELSE T_identity
  IN IF ~StartsWith(charset, T_utfPrefix)
     THEN Thrown(HttpError(415, "unsupported-charset"), FALSE)
     ELSE IF ~decompressed(encoding)
     THEN Thrown(HttpError(415, "unsupported-encoding"), FALSE)
     ELSE IF req.stream.ok THEN Returned(req.stream.text, TRUE)
     ELSE Thrown(HttpErrorFrom(400, req.stream.raw,
                   IF req.stream.raw.type = "encoding.unsupported"
                   THEN "unsupported-charset" ELSE "invalid-body"), TRUE)

\* a test that lets every text through to JSON.parse
jsonObjRegex_Any(s) == TRUE
\* jsonObjRegex = /^[ \t\n\r]*\{/u
jsonObjRegex(s) == LET i == SkipWs(s, 1) IN i <= Len(s) /\ s[i] = "{"

\* querystring.unescape on the escapes the model's texts use; any other
\* "%" stays as it is, "+" is a space
PercentCodes ==
  (<<"7", "B">> :> "{") @@ (<<"7", "D">> :> "}") @@ (<<"2", "0">> :> " ")
    @@ (<<"2", "2">> :> "\"") @@ (<<"3", "A">> :> ":")

EscapeAt(s, i) ==
  s[i] = "%" /\ i + 2 <= Len(s) /\ <<s[i + 1], s[i + 2]>> \in DOMAIN PercentCodes

QsUnescape(s) ==
  LET at == [i \in DOMAIN s |->
               [c |-> IF s[i] = "+" THEN " "
                      ELSE IF EscapeAt(s, i) THEN PercentCodes[<<s[i + 1], s[i + 2]>>]
                      ELSE s[i],
                \* the two characters after an escape's "%" are part of it
                keep |-> ~(i > 1 /\ EscapeAt(s, i - 1)) /\ ~(i > 2 /\ EscapeAt(s, i - 2))]]
      kept == SelectSeq(at, LAMBDA x : x.keep)
  IN [i \in DOMAIN kept |-> kept[i].c]

\* one more value v for key k: a repeated key collects an array
QsAdd(f, k, v) ==
  IF k \notin DOMAIN f THEN Put(f, k, Str(v))
  ELSE IF f[k].t = "array" THEN Put(f, k, Arr(Append(f[k].v, Str(v))))
  ELSE Put(f, k, Arr(<<f[k], Str(v)>>))

\* querystring.parse(s): pairs split on "&", key and value on the first "="
RECURSIVE QsPairs(_, _, _)
QsPairs(s, i, acc) ==
  IF i > Len(s) THEN acc
  ELSE LET e == IndexOf(s, "&", i)
           seg == SubSeq(s, i, e - 1)
           q == IndexOf(seg, "=", 1)
           k == QsUnescape(SubSeq(seg, 1, q - 1))
           v == QsUnescape(SubSeq(seg, q + 1, Len(seg)))
       IN QsPairs(s, e + 1, IF seg = <<>> THEN acc ELSE QsAdd(acc, k, v))

querystringParse(s) == Obj(QsPairs(s, 1, <<>>))

\* a body interpreter that takes no body for parsed upstream
PreParsed_Never(body) == FALSE
\* part_002 96: the body is a keyed object some upstream middleware parsed
PreParsed(body) == TypeOf(body) = "object" /\ body.t # "buffer"

\* parseBody(req, body), part_002.  req.contentType is the Content-Type
\* header: [k |-> "none"] (no header), [k |-> "invalid"] (contentType.parse
\* throws a TypeError) or [k |-> "media", type, charset].
parseBody(req, body) ==
  IF PreParsed(body)
  THEN Returned(IF body.t = "null" THEN EmptyObj ELSE body, FALSE)
  ELSE IF req.contentType.k = "none" THEN Returned(EmptyObj, FALSE)
  ELSE IF req.contentType.k = "invalid"
  THEN Thrown(PlainError("invalid-media-type"), FALSE)
  ELSE LET typeInfo == req.contentType IN
    IF TypeOf(body) = "string" /\ typeInfo.type = "application/graphql"
    THEN Returned(Obj(Put(<<>>, K_query, body)), FALSE)
    ELSE IF Truthy(body) THEN Returned(EmptyObj, FALSE)
    ELSE LET rawBody == readBody(req, typeInfo) IN
      IF ~rawBody.ok THEN rawBody
      ELSE CASE typeInfo.type = "application/graphql" ->
                  Returned(Obj(Put(<<>>, K_query, Str(rawBody.val))), TRUE)
             [] typeInfo.type = "application/json" ->
                  LET j == JSONParse(rawBody.val)
                  IN IF jsonObjRegex(rawBody.val) /\ j.ok
                     THEN Returned(j.val, TRUE)
                     ELSE Thrown(HttpError(400, "invalid-json"), TRUE)
             [] typeInfo.type = "application/x-www-form-urlencoded" ->
                  Returned(querystringParse(rawBody.val), TRUE)
             [] OTHER -> Returned(EmptyObj, TRUE)

(***************************************************************************)
(* graphql-param.ts                                                        *)
(***************************************************************************)
\* graphql-param.ts 23-25 and 43-45: a value that is no string is null
StringOrNull(x) == IF TypeOf(x) # "string" THEN NULL ELSE x

\* a variables parser that takes text that is no JSON for no variables
parseVariables_Lenient(variables) ==
  IF TypeOf(variables) = "string"
  THEN IF JSONParse(variables.v).ok THEN JSONParse(variables.v) ELSE Ok(NULL, 0)
  ELSE IF TypeOf(variables) # "object" THEN Ok(NULL, 0)
  ELSE Ok(variables, 0)

\* graphql-param.ts 31-39: a string is parsed as JSON, any other value that
\* is no object is null.  Not ok stands for "Variables are invalid JSON."
parseVariables(variables) ==
  IF TypeOf(variables) = "string" THEN JSONParse(variables.v)
  ELSE IF TypeOf(variables) # "object" THEN Ok(NULL, 0)
  ELSE Ok(variables, 0)

\* graphql-param.ts 21-50, given the query string, the body mapping and the
\* outcome of parsing the variables
resolveParams(urlData, bodyData, variables, read) ==
  IF ~variables.ok THEN Thrown(HttpError(400, "invalid-variables"), read)
  ELSE Returned(
         [query |-> StringOrNull(Coalesce(urlData.query, Get(bodyData, K_query))),
          variables |-> variables.val,
          operationName |->
            StringOrNull(Coalesce(urlData.operationName,
                                  Get(bodyData, K_operationName))),
          raw |-> urlData.raw # NULL \/ Get(bodyData, K_raw) # UNDEF],
         read)

\* graphql-param.ts 18-50 after the awaited parseBody.  urlData.k is
\* URLSearchParams.get(k): NULL when the query string has no key k, else
\* Str(text).
getGraphQLParamsFrom(urlData, parsed) ==
  IF ~parsed.ok THEN parsed
  ELSE resolveParams(urlData, parsed.val,
         parseVariables(Coalesce(urlData.variables, Get(parsed.val, K_variables))),
         parsed.read)

\* getGraphQLParams(request, body)
getGraphQLParams(req, body) == getGraphQLParamsFrom(req.urlData, parseBody(req, body))

(***************************************************************************)
(* The GraphQL engine (graphql-js) as parseQuery uses it.  What            *)
(* validateSchema, parse, validate and execute answer is the engine's      *)
(* business: each answer is drawn where the call is made.  A document is   *)
(* the sequence of its operation definitions.                              *)
(***************************************************************************)
Operation(name, kind) == [name |-> name, operation |-> kind]
NoOperation == Operation(NULL, "none")

\* an operation lookup that takes the document's first operation whatever
\* the name
getOperationAST_First(document, operationName) ==
  IF Len(document) >= 1 THEN document[1] ELSE NoOperation

\* getOperationAST(document, operationName): without a name the sole
\* operation (none when there are several); with a name the operation so named
getOperationAST(document, operationName) ==
  IF operationName.t \in {"null", "undefined"}
  THEN IF Len(document) = 1 THEN document[1] ELSE NoOperation
  ELSE IF \E i \in DOMAIN document : document[i].name = operationName
       THEN document[CHOOSE i \in DOMAIN document :
                       /\ document[i].name = operationName
                       /\ \A j \in 1..(i - 1) : document[j].name # operationName]
       ELSE NoOperation

N_M == <<"M">>
N_Q == <<"Q">>
\* the documents parse may return
Documents ==
  { <<Operation(NULL, "query")>>,
    <<Operation(Str(N_M), "mutation")>>,
    <<Operation(NULL, "subscription")>>,
    <<Operation(Str(N_Q), "query"), Operation(Str(N_M), "mutation")>> }

\* an ExecutionResult; errors is UNDEF or the sequence of its errors
Result(errors, data) == [errors |-> errors, data |-> data, extensions |-> UNDEF]
NoResult == Result(UNDEF, UNDEF)
Errors(tag) == Arr(<<PlainError(tag)>>)
SomeData == Obj(Put(<<>>, <<"f">>, Num(1)))

\* what execute may do: throw, or return one of these results
ExecuteResults ==
  { Result(UNDEF, SomeData),
    Result(Errors("field-error"), SomeData),
    Result(Errors("field-error"), NULL),
    Result(Errors("execution-error"), UNDEF) }

\* what a call of the extensions function may do
ExtensionsOutcomes ==
  { [k |-> "throws", status |-> UNDEF, val |-> UNDEF],
    [k |-> "throws", status |-> Num(403), val |-> UNDEF],
    [k |-> "returns", status |-> UNDEF, val |-> Obj(Put(<<>>, <<"t">>, Num(1)))],
    [k |-> "returns", status |-> UNDEF, val |-> PROMISE],
    [k |-> "returns", status |-> UNDEF, val |-> UNDEF],
    [k |-> "returns", status |-> UNDEF, val |-> Str(<<"x">>)] }

(***************************************************************************)
(* Requests.  urlData holds URLSearchParams.get for the four keys, body is *)
(* ctx.body (UNDEF when nothing upstream set it), stream is what reading   *)
(* the request stream with getBody gives.                                  *)
(***************************************************************************)
Url(q, v, o, r) == [query |-> q, variables |-> v, operationName |-> o, raw |-> r]
NoUrl == Url(NULL, NULL, NULL, NULL)
NoContentType == [k |-> "none", type |-> "", charset |-> UNDEF]
InvalidContentType == [k |-> "invalid", type |-> "", charset |-> UNDEF]
Media(type, charset) == [k |-> "media", type |-> type, charset |-> charset]
Text(s) == [ok |-> TRUE, text |-> s, raw |-> [status |-> UNDEF, type |-> "none"]]
\* getBody rejects: raw-body's errors carry a status and a type, a zlib
\* error carries neither
StreamError(status, type) ==
  [ok |-> FALSE, text |-> <<>>, raw |-> [status |-> status, type |-> type]]
Request(url, ct, ce, body, stream) ==
  [urlData |-> url, contentType |-> ct, contentEncoding |-> ce, body |-> body,
   stream |-> stream]

\* texts of the requests
Quoted(s) == <<"\"">> \o s \o <<"\"">>
Member(k, v) == Quoted(k) \o <<":">> \o v
Q_a == <<"{", "a", "}">>
Q_b == <<"{", "b", "}">>
V_notJson == <<"n", "o", "t", " ", "j", "s", "o", "n">>
V_obj == <<"{">> \o Member(<<"x">>, <<"1">>) \o <<"}">>
V_obj2 == <<"{">> \o Member(<<"y">>, <<"2">>) \o <<"}">>
VariableTexts ==
  { <<>>, V_notJson, V_obj, <<"{", "}">>, <<"1">>, <<"t", "r", "u", "e">>,
    Quoted(<<"s">>), <<"[", "1", "]">>, <<"n", "u", "l", "l">> }

\* {"query":"{b}","variables":{"y":2},"operationName":"Q"}
J_all ==
  <<"{">> \o Member(K_query, Quoted(Q_b)) \o <<",">> \o Member(K_variables, V_obj2)
    \o <<",">> \o Member(K_operationName, Quoted(N_Q)) \o <<"}">>
\* {"query":"{a}","variables":v}
J_vars(v) ==
  <<"{">> \o Member(K_query, Quoted(Q_a)) \o <<",">> \o Member(K_variables, v)
    \o <<"}">>
\* {"query":"{a}","raw":false}, after a line break and a space
J_raw ==
  <<"\n", " ", "{">> \o Member(K_query, Quoted(Q_a)) \o <<",">>
    \o Member(K_raw, <<"f", "a", "l", "s", "e">>) \o <<"}">>
\* query=%7Bb%7D&variables=%7B%22y%22%3A2%7D&operationName=Q
F_all ==
  K_query \o <<"=", "%", "7", "B", "b", "%", "7", "D", "&">> \o K_variables
    \o <<"=", "%", "7", "B", "%", "2", "2", "y", "%", "2", "2", "%", "3", "A",
         "2", "%", "7", "D", "&">> \o K_operationName \o <<"=", "Q">>
\* variables=not+json
F_notJson == K_variables \o <<"=", "n", "o", "t", "+", "j", "s", "o", "n">>

\* the body as an object some upstream middleware parsed
O_all ==
  Obj(Put(Put(Put(<<>>, K_query, Str(Q_b)), K_variables, JSONParse(V_obj2).val),
          K_operationName, Str(N_Q)))
O_vars(v) == Obj(Put(Put(<<>>, K_query, Str(Q_a)), K_variables, v))

BodyTexts ==
  { <<>>, Q_a, J_all, J_raw, J_vars(Quoted(V_notJson)), J_vars(Quoted(<<"1">>)),
    J_vars(<<"1">>), J_vars(<<"[", "1", "]">>),
    <<"[", "1", "]">>, Quoted(Q_a), <<" ", "1">>, <<"{">>, <<"x", "{", "}">>,
    <<"\t", "{", "}", " ">>, F_all, F_notJson }

StreamErrors ==
  { StreamError(Num(413), "entity.too.large"),
    StreamError(Num(400), "request.aborted"),
    StreamError(Num(415), "encoding.unsupported"),
    StreamError(UNDEF, "zlib") }

MediaTypes ==
  { "application/graphql", "application/json",
    "application/x-www-form-urlencoded", "text/plain" }
ContentTypes ==
  {NoContentType, InvalidContentType} \cup {Media(ty, UNDEF) : ty \in MediaTypes}
Charsets ==
  { UNDEF, Str(<<"U", "T", "F", "-", "8">>), Str(<<"u", "t", "f", "-", "1", "6">>),
    Str(<<"u", "t", "f", "8">>), Str(<<"l", "a", "t", "i", "n", "1">>) }
Encodings ==
  { UNDEF, Str(T_identity), Str(<<"G", "Z", "I", "P">>), Str(T_deflate),
    Str(<<"b", "r">>) }
\* ctx.body when upstream middleware has set it
PreParsedBodies ==
  { NULL, EmptyObj, O_all, O_vars(Str(V_notJson)), O_vars(Num(1)),
    Arr(<<Num(1)>>), BUFFER, Str(Q_a), Str(<<>>), Num(0), Num(1), Bool(FALSE),
    Bool(TRUE) }

\* query-string parameters alone, no Content-Type, the pipeline's inputs
PipelineRequests ==
  { Request(Url(q, v, o, NULL), NoContentType, UNDEF, UNDEF, Text(<<>>)) :
      q \in {NULL, Str(<<>>), Str(Q_a)}, v \in {NULL, Str(V_obj)},
      o \in {NULL, Str(<<>>), Str(N_M), Str(N_Q)} }
\* each key in the query string or not, against a body that has all three
PrecedenceRequests ==
  { Request(Url(q, v, o, r), b[1], UNDEF, b[2], Text(b[3])) :
      q \in {NULL, Str(<<>>), Str(Q_a)},
      v \in {NULL, Str(<<>>), Str(V_obj)},
      o \in {NULL, Str(<<>>), Str(N_M)},
      r \in {NULL},
      b \in { <<Media("application/json", UNDEF), UNDEF, J_all>>,
              <<Media("application/x-www-form-urlencoded", UNDEF), UNDEF, F_all>>,
              <<NoContentType, O_all, <<>>>> } }
\* variables of every kind, from the query string and from the body
VariablesRequests ==
  { Request(Url(NULL, Str(v), NULL, r), ct, UNDEF, UNDEF, Text(Q_a)) :
      v \in VariableTexts, r \in {NULL, Str(<<>>)}, ct \in ContentTypes }
\* the request stream under every header
DecoderRequests ==
  { Request(NoUrl, Media(ty, cs), ce, UNDEF, st) :
      ty \in MediaTypes, cs \in Charsets, ce \in Encodings,
      st \in {Text(Q_a)} \cup StreamErrors }
\* every body text under every media type; a falsy ctx.body is no body
InterpreterRequests ==
  { Request(NoUrl, ct, UNDEF, b, Text(s)) :
      ct \in ContentTypes, b \in {UNDEF, Str(<<>>), Num(0), Bool(FALSE)},
      s \in BodyTexts }
\* a body parsed upstream
PreParsedRequests ==
  { Request(NoUrl, ct, UNDEF, b, Text(J_all)) :
      ct \in ContentTypes, b \in PreParsedBodies }

Requests ==
  PipelineRequests \cup PrecedenceRequests \cup VariablesRequests
    \cup DecoderRequests \cup InterpreterRequests \cup PreParsedRequests
Methods == {"GET", "POST", "PUT"}

(***************************************************************************)
(* The handler graphqlHTTP returns, for one request.                       *)
(***************************************************************************)
VARIABLES
  pc,        \* where the handler is
  method,    \* request.method
  req,       \* the request: query string, headers, ctx.body, stream
  options,   \* the OptionsData parseOptions resolved
  params,    \* the GraphQLParams getGraphQLParams returned
  document,  \* parseQuery's document
  result,    \* the handler's result
  status,    \* response.status
  allow,     \* the response's Allow header, "" while unset
  caught,    \* the error the handler's catch clause receives
  thrown,    \* the error that leaves the handler
  response,  \* response.type and response.body
  calls,     \* how often each collaborator was called
  outcome    \* history: the outcome parseQuery ended with

vars ==
  <<pc, method, req, options, params, document, result, status, allow, caught,
    thrown, response, calls, outcome>>

\* The outcome of parseQuery: which return or throw ended it, the status it
\* set (or threw), and whether its result carries data.
Outcome(kind, st, data) == [kind |-> kind, status |-> st, data |-> data]
NoOutcome == Outcome("none", 0, FALSE)

NoError == PlainError("none")
NoParams ==
  [query |-> UNDEF, variables |-> UNDEF, operationName |-> UNDEF, raw |-> FALSE]
NoOptions ==
  [schema |-> "none", extensions |-> FALSE, formatError |-> FALSE, pretty |-> FALSE]
NoResponse == [type |-> "", pretty |-> FALSE, body |-> NoResult, written |-> FALSE]
NoCalls ==
  [options |-> 0, getBody |-> 0, validateSchema |-> 0, parse |-> 0,
   validate |-> 0, getOperationAST |-> 0, execute |-> 0, extensions |-> 0,
   formatError |-> 0, next |-> 0]
Called(f) == [calls EXCEPT ![f] = @ + 1]

Init ==
  /\ pc = "start"
  /\ method \in Methods
  /\ req \in Requests
  /\ options = NoOptions
  /\ params = NoParams
  /\ document = <<>>
  /\ result = NoResult
  /\ status = 404   \* Koa's response.status before anything sets it
  /\ allow = ""
  /\ caught = NoError
  /\ thrown = NoError
  /\ response = NoResponse
  /\ calls = NoCalls
  /\ outcome = NoOutcome

\* a method check that lets every method through
Supported_Any(m) == TRUE
\* index.ts 18: the methods GraphQL HTTP supports
Supported(m) == m = "GET" \/ m = "POST"

\* index.ts 18-22: GraphQL HTTP only supports GET and POST methods
MethodCheck ==
  /\ pc = "start"
  /\ IF ~Supported(method)
     THEN /\ allow' = "GET, POST"
          /\ thrown' = HttpError(405, "method-not-allowed")
          /\ pc' = "escaped"
     ELSE /\ pc' = "options"
          /\ UNCHANGED <<allow, thrown>>
  /\ UNCHANGED <<method, req, options, params, document, result, status, caught,
                 response, calls, outcome>>

\* what awaiting the options gives: a rejection, a value that is no object,
\* or an OptionsData; its schema is missing, or one validateSchema finds
\* valid or invalid
OptionsResults ==
  { [k |-> "rejects", data |-> NoOptions], [k |-> "not-object", data |-> NoOptions] }
    \cup { [k |-> "object",
            data |-> [schema |-> sc, extensions |-> ex, formatError |-> fe,
                      pretty |-> pr]] :
             sc \in {"none", "valid", "invalid"}, ex \in BOOLEAN, fe \in BOOLEAN, pr \in BOOLEAN }

\* index.ts 24-35 and option.ts 65-83 (parseOptions)
ResolveOptions ==
  /\ pc = "options"
  /\ \E o \in OptionsResults :
       /\ calls' = Called("options")
       /\ IF o.k = "rejects"
          THEN thrown' = PlainError("options-rejected") /\ pc' = "escaped"
                 /\ UNCHANGED options
          ELSE IF o.k = "not-object"
          THEN thrown' = PlainError("options-not-object") /\ pc' = "escaped"
                 /\ UNCHANGED options
          ELSE IF o.data.schema = "none"
          THEN thrown' = PlainError("options-no-schema") /\ pc' = "escaped"
                 /\ options' = o.data
          ELSE options' = o.data /\ pc' = "params" /\ UNCHANGED thrown
  /\ UNCHANGED <<method, req, params, document, result, status, allow, caught,
                 response, outcome>>

\* index.ts 39-41: the awaited getGraphQLParams(req, body)
GetParams ==
  /\ pc = "params"
  /\ \E r \in {getGraphQLParams(req, req.body)} :
       /\ calls' = IF r.read THEN Called("getBody") ELSE calls
       /\ IF r.ok
          THEN params' = r.val /\ pc' = "query" /\ UNCHANGED caught
          ELSE caught' = r.err /\ pc' = "catch" /\ UNCHANGED params
  /\ UNCHANGED <<method, req, options, document, result, status, allow, thrown,
                 response, outcome>>

\* a query check that lets an invalid schema answer first
CheckQuery_SchemaFirst ==
  /\ pc = "query"
  /\ IF options.schema # "invalid" /\ ~Truthy(params.query)
     THEN /\ caught' = HttpError(400, "no-query")
          /\ outcome' = Outcome("NoQuery", 400, FALSE)
          /\ pc' = "catch"
     ELSE pc' = "schema" /\ UNCHANGED <<caught, outcome>>
  /\ UNCHANGED <<method, req, options, params, document, result, status, allow,
                 thrown, response, calls>>

\* parseQuery 29-33: no query is a 400
CheckQuery ==
  /\ pc = "query"
  /\ IF ~Truthy(params.query)
     THEN /\ caught' = HttpError(400, "no-query")
          /\ outcome' = Outcome("NoQuery", 400, FALSE)
          /\ pc' = "catch"
     ELSE pc' = "schema" /\ UNCHANGED <<caught, outcome>>
  /\ UNCHANGED <<method, req, options, params, document, result, status, allow,
                 thrown, response, calls>>

\* parseQuery 35-41: an invalid schema is a 500
ValidateSchema ==
  /\ pc = "schema"
  /\ calls' = Called("validateSchema")
  /\ IF options.schema = "invalid"
     THEN /\ status' = 500
          /\ result' = Result(Errors("schema-error"), UNDEF)
          /\ outcome' = Outcome("SchemaInvalid", status', Truthy(result'.data))
          /\ pc' = "extensions"
     ELSE pc' = "parse" /\ UNCHANGED <<status, result, outcome>>
  /\ UNCHANGED <<method, req, options, params, document, allow, caught, thrown,
                 response>>

\* parseQuery 42-53: a syntax error is a 400
Parse ==
  /\ pc = "parse"
  /\ calls' = Called("parse")
  /\ \/ /\ status' = 400
        /\ result' = Result(Errors("syntax-error"), UNDEF)
        /\ outcome' = Outcome("SyntaxError", status', Truthy(result'.data))
        /\ pc' = "extensions"
        /\ UNCHANGED document
     \/ /\ document' \in Documents
        /\ pc' = "validate"
        /\ UNCHANGED <<status, result, outcome>>
  /\ UNCHANGED <<method, req, options, params, allow, caught, thrown, response>>

\* parseQuery 55-63: validation errors are a 400
Validate ==
  /\ pc = "validate"
  /\ calls' = Called("validate")
  /\ \E invalid \in BOOLEAN :
       IF invalid
       THEN /\ status' = 400
            /\ result' = Result(Errors("validation-error"), UNDEF)
            /\ outcome' = Outcome("ValidationErrors", status', Truthy(result'.data))
            /\ pc' = "extensions"
       ELSE pc' = "operation" /\ UNCHANGED <<status, result, outcome>>
  /\ UNCHANGED <<method, req, options, params, document, allow, caught, thrown,
                 response>>

\* parseQuery 65-77: only query operations are allowed on GET requests
CheckOperation ==
  /\ pc = "operation"
  /\ IF method = "GET"
     THEN LET operationAST == getOperationAST(document, params.operationName)
          IN /\ calls' = Called("getOperationAST")
             /\ IF operationAST # NoOperation /\ operationAST.operation # "query"
                THEN /\ allow' = "POST"
                     /\ caught' = HttpError(405, "non-query-get")
                     /\ outcome' = Outcome("MethodNotAllowed", 405, FALSE)
                     /\ pc' = "catch"
                ELSE pc' = "execute" /\ UNCHANGED <<allow, caught, outcome>>
     ELSE pc' = "execute" /\ UNCHANGED <<allow, caught, calls, outcome>>
  /\ UNCHANGED <<method, req, options, params, document, result, status, thrown,
                 response>>

\* parseQuery 79-96: execute; a failure creating the context is a 400
Execute ==
  /\ pc = "execute"
  /\ calls' = Called("execute")
  /\ \/ \E r \in ExecuteResults :
          /\ status' = 200
          /\ result' = r
          /\ outcome' = Outcome("Success", status', Truthy(result'.data))
     \/ /\ status' = 400
        /\ result' = Result(Errors("context-error"), UNDEF)
        /\ outcome' = Outcome("ExecutionContextError", status', Truthy(result'.data))
  /\ pc' = "extensions"
  /\ UNCHANGED <<method, req, options, params, document, allow, caught, thrown,
                 response>>

\* an extensions hook that runs only for a result with data
HasExtensions_Data(res, extensionsFn) == Truthy(res.data) /\ extensionsFn
\* index.ts 48: if (result && extensionsFn); a result parseQuery returned is
\* an object, hence truthy
HasExtensions(res, extensionsFn) == res # NoResult /\ extensionsFn

\* index.ts 44-59: collect and apply any metadata extensions
Extensions ==
  /\ pc = "extensions"
  /\ IF HasExtensions(result, options.extensions)
     THEN \E e \in ExtensionsOutcomes :
            /\ calls' = Called("extensions")
            /\ IF e.k = "throws"
               THEN /\ caught' = [status |-> e.status, tag |-> "extensions-error"]
                    /\ pc' = "catch"
                    /\ UNCHANGED result
               ELSE /\ result' = IF Truthy(e.val) /\ TypeOf(e.val) = "object"
                                 THEN [result EXCEPT !.extensions = e.val]
                                 ELSE result
                    /\ pc' = "post"
                    /\ UNCHANGED caught
     ELSE pc' = "post" /\ UNCHANGED <<result, caught, calls>>
  /\ UNCHANGED <<method, req, options, params, document, status, allow, thrown,
                 response, outcome>>

\* a catch clause that reports every error as a 500
ErrorStatus_Always500(error) == 500
\* index.ts 62: error.status || 500
ErrorStatus(error) == IF Truthy(error.status) THEN error.status.v ELSE 500

\* index.ts 60-64: report the httpError status, or 500
Catch ==
  /\ pc = "catch"
  /\ status' = ErrorStatus(caught)
  /\ result' = Result(Arr(<<caught>>), UNDEF)
  /\ pc' = "post"
  /\ UNCHANGED <<method, req, options, params, document, allow, caught, thrown,
                 response, calls, outcome>>

\* formatErrorFn(err, ctx) or graphql's formatError(err)
Formatted(errors) == Arr([i \in DOMAIN errors.v |-> [tag |-> errors.v[i].tag]])

\* no escalation at all
Escalated_Never(st, res) == st
\* an escalation that turns every status without data into a 500
Escalated_AnyStatus(st, res) == IF ~Truthy(res.data) THEN 500 ELSE st
\* index.ts 66-73: a 200 whose result has no data becomes a 500
Escalated(st, res) == IF st = 200 /\ ~Truthy(res.data) THEN 500 ELSE st

\* index.ts 66-85: no data with a 200 is a 500; format the errors; write the
\* body; await next()
Finish ==
  /\ pc = "post"
  /\ LET st == Escalated(status, result)
         hasErrors == Truthy(result.errors)
     IN /\ status' = st
        /\ \/ \* a formatError option that throws leaves the handler
              /\ hasErrors /\ options.formatError
              /\ calls' = Called("formatError")
              /\ thrown' = PlainError("formatError-error")
              /\ pc' = "escaped"
              /\ UNCHANGED <<result, response>>
           \/ /\ result' = IF hasErrors
                           THEN [result EXCEPT !.errors = Formatted(@)]
                           ELSE result
              /\ response' = [type |-> "application/json",
                              pretty |-> options.pretty,
                              body |-> result', written |-> TRUE]
              /\ calls' = [calls EXCEPT
                             !.formatError = IF hasErrors THEN @ + 1 ELSE @,
                             !.next = @ + 1]
              /\ pc' = "done"
              /\ UNCHANGED thrown
  /\ UNCHANGED <<method, req, options, params, document, allow, caught, outcome>>

Next ==
  \/ MethodCheck
  \/ ResolveOptions
  \/ GetParams
  \/ CheckQuery
  \/ ValidateSchema
  \/ Parse
  \/ Validate
  \/ CheckOperation
  \/ Execute
  \/ Extensions
  \/ Catch
  \/ Finish

Spec == Init /\ [][Next]_vars

(***************************************************************************)
(* Properties of the handler.                                              *)
(***************************************************************************)
\* the handler wrote its response and returned
Completed == pc = "done"
\* the extensions function threw
ExtensionsThrew == caught.tag = "extensions-error"
\* parseQuery went past validation
PastValidation ==
  outcome.kind \in {"MethodNotAllowed", "ExecutionContextError", "Success"}
\* the operation the request selects in its document is a mutation or a
\* subscription: the sole operation when no name is given, else the one named
NonQuerySelected ==
  \E i \in DOMAIN document :
    /\ document[i].operation \in {"mutation", "subscription"}
    /\ IF params.operationName.t \in {"null", "undefined"}
       THEN Len(document) = 1
       ELSE document[i].name = params.operationName
\* the one error of the response body
BodyError(tag) == Arr(<<[tag |-> tag]>>)
\* the result carries exactly the error tag
Reports(res, tag) ==
  res.errors.t = "array" /\ Len(res.errors.v) = 1 /\ res.errors.v[1].tag = tag

\* C1 as the spec states it: a valid document that selects a mutation or a
\* subscription ends, over GET, with 405, Allow: POST and no execute; over
\* POST it reaches execute and, when execute returns data, ends with 200.
C1_Orig ==
  (Completed /\ PastValidation /\ NonQuerySelected) =>
    IF method = "GET"
    THEN status = 405 /\ allow = "POST" /\ calls.execute = 0
    ELSE calls.execute = 1
           /\ (outcome.kind = "Success" /\ outcome.data => status = 200)

\* C1: a valid document that selects a mutation or a subscription ends, over
\* GET, with 405, Allow: POST and no call of execute; over POST it reaches
\* execute and, when execute returns data and the extensions function does
\* not throw, ends with 200.
C1_NonQueryOperation ==
  /\ (pc = "execute" /\ method = "GET") => ~NonQuerySelected
  /\ (Completed /\ PastValidation /\ NonQuerySelected) =>
       IF method = "GET"
       THEN /\ outcome.kind = "MethodNotAllowed"
            /\ status = 405 /\ allow = "POST" /\ calls.execute = 0
            /\ response.body.errors = BodyError("non-query-get")
       ELSE /\ calls.execute = 1
            /\ (outcome.kind = "Success" /\ outcome.data /\ ~ExtensionsThrew)
                 => status = 200

C1_Witness ==
  /\ Completed /\ method = "GET" /\ NonQuerySelected
  /\ Len(document) = 2 /\ status = 405 /\ allow = "POST"

\* C2 as the spec states it: a request whose schema is invalid ends with the
\* 500 of the schema check whether or not it carries a query.
C2_Orig ==
  (Completed /\ params # NoParams /\ options.schema = "invalid") =>
    outcome.kind = "SchemaInvalid" /\ outcome.status = 500

\* C2: the query check runs before the schema check: a request without a
\* query ends with the 400 of the absent query whether or not the schema is
\* valid, validateSchema not called; an invalid schema gives its 500 only to
\* a request that carries a query.
C2_QueryBeforeSchema ==
  (Completed /\ params # NoParams) =>
    /\ ~Truthy(params.query) =>
         /\ outcome.kind = "NoQuery" /\ status = 400
         /\ calls.validateSchema = 0
         /\ response.body.errors = BodyError("no-query")
    /\ (Truthy(params.query) /\ options.schema = "invalid") =>
         /\ outcome.kind = "SchemaInvalid" /\ outcome.status = 500
         /\ calls.validateSchema = 1 /\ calls.parse = 0
         /\ ~ExtensionsThrew => status = 500

C2_Witness ==
  /\ Completed /\ params # NoParams /\ options.schema = "invalid"
  /\ ~Truthy(params.query) /\ status = 400

\* the status and the error of each outcome that is no returned result
KindStatus(kind) ==
  CASE kind = "SchemaInvalid" -> 500
    [] kind = "NoQuery" -> 400
    [] kind = "SyntaxError" -> 400
    [] kind = "ValidationErrors" -> 400
    [] kind = "MethodNotAllowed" -> 405
    [] kind = "ExecutionContextError" -> 400
    [] kind = "Success" -> 200
KindError(kind) ==
  CASE kind = "SchemaInvalid" -> "schema-error"
    [] kind = "NoQuery" -> "no-query"
    [] kind = "SyntaxError" -> "syntax-error"
    [] kind = "ValidationErrors" -> "validation-error"
    [] kind = "MethodNotAllowed" -> "non-query-get"
    [] kind = "ExecutionContextError" -> "context-error"

\* C3: every outcome the pipeline ends with before execute returns carries
\* errors and no data, with the status of its kind: 500 invalid schema, 400
\* absent query, 400 syntax error, 400 validation errors, 405 non-query
\* operation over GET, 400 context failure; a 200 is the status of a result
\* execute returned, and of nothing else.
C3_OutcomeStatus ==
  /\ pc = "extensions" =>
       /\ outcome.kind \in {"SchemaInvalid", "SyntaxError", "ValidationErrors",
                            "ExecutionContextError", "Success"}
       /\ status = KindStatus(outcome.kind)
       /\ outcome.kind # "Success" =>
            /\ Reports(result, KindError(outcome.kind))
            /\ result.data = UNDEF
            /\ calls.execute = IF outcome.kind = "ExecutionContextError" THEN 1 ELSE 0
  /\ (pc = "post" /\ outcome.kind \in {"NoQuery", "MethodNotAllowed"}) =>
       /\ status = KindStatus(outcome.kind)
       /\ Reports(result, KindError(outcome.kind))
       /\ result.data = UNDEF
       /\ calls.execute = 0
  /\ status = 200 => (outcome.kind = "Success" /\ calls.execute = 1)

C3_Witness ==
  /\ pc = "post" /\ outcome.kind = "NoQuery" /\ status = 400
  /\ options.schema = "valid" /\ result.data = UNDEF

\* C4 as the spec states it: the status an outcome was produced with is the
\* status of the response, but for a 200 without data, which becomes a 500.
C4_Orig ==
  (pc \in {"post", "done"} /\ outcome.kind # "none") =>
    \/ status = outcome.status
    \/ Completed /\ outcome.status = 200 /\ ~outcome.data /\ status = 500

\* C4: the status an outcome was produced with is the status of the response,
\* with two exceptions: a 200 without data becomes a 500, and a failure the
\* extensions function throws replaces the status by its own, or by 500 when
\* it has none.  Formatting the errors and writing the body change nothing.
C4_StatusKept ==
  (pc \in {"post", "done"} /\ outcome.kind # "none") =>
    \/ ~ExtensionsThrew /\ status = outcome.status
    \/ ~ExtensionsThrew /\ Completed /\ outcome.status = 200 /\ ~outcome.data
         /\ status = 500
    \/ ExtensionsThrew /\ outcome.kind \notin {"NoQuery", "MethodNotAllowed"}
         /\ status = (IF caught.status = UNDEF THEN 500 ELSE caught.status.v)

C4_Witness ==
  /\ Completed /\ ExtensionsThrew /\ outcome.status = 200 /\ outcome.data
  /\ status = 500
\* C5 as the spec states it: no failure that carries a status leaves the
\* handler; each is caught and ends in a response with that status (500
\* without one), content type application/json and a body of errors alone.
C5_Orig ==
  /\ pc = "escaped" => ~Truthy(thrown.status)
  /\ (Completed /\ caught # NoError) =>
       /\ status = (IF caught.status = UNDEF THEN 500 ELSE caught.status.v)
       /\ response.type = "application/json"
       /\ response.body = Result(BodyError(caught.tag), UNDEF)

\* C6: for a method that is neither GET nor POST the method check is the
\* first step: the request fails with a 405 and Allow: GET, POST, and the
\* options resolver, the body decoder and the engine are never called.
C6_MethodFirst ==
  /\ (method \notin {"GET", "POST"} /\ pc # "start") =>
       /\ pc = "escaped"
       /\ thrown = HttpError(405, "method-not-allowed")
       /\ allow = "GET, POST"
       /\ calls = NoCalls
       /\ params = NoParams /\ outcome = NoOutcome /\ ~response.written
  /\ calls # NoCalls => method \in {"GET", "POST"}

C6_Witness ==
  /\ pc = "escaped" /\ method = "PUT" /\ thrown.status = Num(405)
  /\ allow = "GET, POST" /\ calls.options = 0

\* the body mapping parseBody gives the request
BodyData == parseBody(req, req.body).val
\* what a body value gives a text parameter, and the variables
TextOf(x) == IF x.t = "string" THEN x ELSE NULL
VariablesOf(x) ==
  IF x.t = "string" THEN JSONParse(x.v).val
  ELSE IF x.t \in {"object", "array", "null"} THEN x
  ELSE NULL

\* C7: a key the query string contains, with whatever value, the empty one
\* included, gives the parameter from the query string's value alone; the
\* body's value is used only when the query string has no such key.
C7_QueryStringFirst ==
  pc = "query" =>
    /\ params.query = IF req.urlData.query # NULL THEN req.urlData.query
                      ELSE TextOf(Get(BodyData, K_query))
    /\ params.operationName =
         IF req.urlData.operationName # NULL THEN req.urlData.operationName
         ELSE TextOf(Get(BodyData, K_operationName))
    /\ params.variables =
         IF req.urlData.variables # NULL
         THEN JSONParse(req.urlData.variables.v).val
         ELSE VariablesOf(Get(BodyData, K_variables))

C7_Witness ==
  /\ pc = "query" /\ req.urlData.query = Str(<<>>)
  /\ req.urlData.operationName = Str(<<>>)
  /\ req.urlData.variables = NULL
  /\ Get(BodyData, K_query) = Str(Q_b)
  /\ Get(BodyData, K_operationName) = Str(N_Q)
  /\ params.query = Str(<<>>) /\ params.operationName = Str(<<>>)
  /\ params.variables = JSONParse(V_obj2).val

\* C8 as the spec states it: the variables of resolved parameters are null or
\* a mapping.
C8_Orig ==
  pc = "query" => (params.variables = NULL \/ params.variables.t = "object")

\* the request gives variables as text that is no JSON, in the query string
\* or, the query string having none, in a body parseBody accepts
UrlVariablesInvalid ==
  /\ req.urlData.variables # NULL
  /\ ~JSONParse(req.urlData.variables.v).ok
BodyVariablesInvalid ==
  /\ req.urlData.variables = NULL
  /\ parseBody(req, req.body).ok
  /\ Get(BodyData, K_variables).t = "string"
  /\ ~JSONParse(Get(BodyData, K_variables).v).ok
\* the response is the 400 of invalid variables, the engine left alone
InvalidVariablesResponse ==
  /\ status = 400
  /\ response.body = Result(BodyError("invalid-variables"), UNDEF)
  /\ calls.execute = 0 /\ calls.parse = 0 /\ calls.validateSchema = 0

\* C9 as the spec states it: variables text that is no JSON always ends with
\* the 400 of invalid variables, whatever the Content-Type.
C9_Orig ==
  (Completed /\ (UrlVariablesInvalid \/ BodyVariablesInvalid)) =>
    InvalidVariablesResponse

\* C9: variables text that is no JSON, from the query string or from the
\* body, ends with the 400 of invalid variables and no call of execute,
\* whatever the Content-Type, whenever the body is decoded and interpreted
\* without a failure; a failure of the body is reported instead, and execute
\* is not called then either.
C9_InvalidVariables ==
  (Completed /\ (UrlVariablesInvalid \/ BodyVariablesInvalid)) =>
    /\ calls.execute = 0
    /\ parseBody(req, req.body).ok => InvalidVariablesResponse
    /\ ~parseBody(req, req.body).ok =>
         /\ status = (IF parseBody(req, req.body).err.status = UNDEF THEN 500
                       ELSE parseBody(req, req.body).err.status.v)
         /\ response.body =
              Result(BodyError(parseBody(req, req.body).err.tag), UNDEF)

C9_Witness ==
  /\ Completed /\ BodyVariablesInvalid /\ req.contentType.k = "media"
  /\ status = 400 /\ response.body.errors = BodyError("invalid-variables")

\* parseQuery returned a result, with or without data
ReturnedOutcome ==
  outcome.kind \in {"SchemaInvalid", "SyntaxError", "ValidationErrors",
                    "ExecutionContextError", "Success"}

\* C10 as the spec states it: the extensions function is called only when it
\* is supplied and the outcome carries data.
C10_Orig ==
  /\ calls.extensions > 0 => (options.extensions /\ outcome.data)
  /\ result.extensions # UNDEF => (options.extensions /\ outcome.data)

\* C10: the extensions function is called, once, exactly when it is supplied
\* and parseQuery returned a result, with data or without (invalid schema,
\* syntax error, validation errors and context failure included); it is never
\* called when the pipeline threw or the parameters failed; what it returns
\* is attached only when it is an object.
C10_ExtensionsCalled ==
  /\ calls.extensions =
       IF options.extensions /\ ReturnedOutcome /\ pc # "extensions" THEN 1 ELSE 0
  /\ result.extensions # UNDEF =>
       /\ calls.extensions = 1 /\ ~ExtensionsThrew
       /\ TypeOf(result.extensions) = "object"

C10_Witness ==
  /\ Completed /\ outcome.kind = "SyntaxError" /\ calls.extensions = 1
  /\ result.extensions # UNDEF /\ result.data = UNDEF /\ status = 400

\* C11 as the spec states it: the handler waits for an extensions function
\* that answers asynchronously, so what the response body carries as
\* extensions is the resolved mapping, never the pending promise.
C11_Orig ==
  /\ result.extensions # PROMISE
  /\ Completed => response.body.extensions # PROMISE

\* the parameters a request gives that has none
NullParams ==
  [query |-> NULL, variables |-> NULL, operationName |-> NULL, raw |-> FALSE]
\* the body is an object (an array too) that upstream middleware parsed
ObjectBody == req.body.t \in {"object", "array"}
\* getGraphQLParams has resolved or failed
ParamsDone ==
  \/ pc \notin {"start", "options", "params", "escaped"}
  \/ pc = "escaped" /\ thrown.tag = "formatError-error"

\* C12 as the spec states it: without a Content-Type header the body mapping
\* is empty whatever the body is, so a request without query-string
\* parameters resolves with query, variables and operationName all null.
C12_Orig ==
  (ParamsDone /\ req.contentType.k = "none" /\ req.urlData = NoUrl) =>
    /\ BodyData = EmptyObj
    /\ params = NullParams

\* C12: without a Content-Type header the body mapping is empty, and the
\* stream is not read, whatever the body is (raw stream, byte buffer, plain
\* value or null), unless the body is an object parsed upstream, which is
\* the body mapping itself; with an empty mapping and no query-string
\* parameters query, variables and operationName are all null.
C12_NoContentType ==
  (ParamsDone /\ req.contentType.k = "none") =>
    /\ parseBody(req, req.body).ok
    /\ calls.getBody = 0
    /\ BodyData = IF ObjectBody THEN req.body ELSE EmptyObj
    /\ (~ObjectBody /\ req.urlData = NoUrl) =>
         (params = NullParams /\ caught.tag \in {"none", "no-query"})

C12_Witness ==
  /\ pc = "query" /\ req.contentType.k = "none" /\ req.urlData = NoUrl
  /\ req.body = BUFFER /\ req.stream = Text(J_all) /\ params = NullParams

\* C13 as the spec states it: with a body value parsed upstream the stream is
\* never decoded unless the value is a byte buffer; an object is the body
\* mapping itself, a plain value (no object, not null) under
\* application/graphql is the query, and every other value that is no
\* object, the empty text, zero and false included, gives an empty mapping.
C13_Orig ==
  (ParamsDone /\ req.body # UNDEF /\ req.contentType.k # "invalid") =>
    /\ req.body # BUFFER => calls.getBody = 0
    /\ ObjectBody => BodyData = req.body
    /\ (~ObjectBody /\ req.body \notin {NULL, BUFFER}) =>
         /\ parseBody(req, req.body).ok
         /\ BodyData =
              IF req.contentType.k = "media"
                   /\ req.contentType.type = "application/graphql"
              THEN Obj(Put(<<>>, K_query, req.body))
              ELSE EmptyObj

\* getBody was awaited and rejected
StreamFailed == calls.getBody = 1 /\ ~req.stream.ok
\* the await of execute failed
ExecuteFailed == outcome.kind = "ExecutionContextError"

\* C14 as the spec states it: an abort while the body stream or execute is
\* awaited ends the request with status 500.
C14_Orig ==
  (Completed /\ ~ExtensionsThrew
     /\ \/ StreamFailed /\ req.stream.raw.type = "request.aborted"
        \/ ExecuteFailed) =>
    status = 500

\* C14: a failure of the awaited body stream, an abort included, ends the
\* request with the status the stream's error carries, 400 when it carries
\* none, as an invalid-body failure, execute not called; a failure of the
\* awaited execute ends it with the 400 of a context failure unless the
\* extensions function throws afterwards.  Neither is a 500.
C14_AbortStatus ==
  /\ (Completed /\ StreamFailed) =>
       /\ status = IF req.stream.raw.status = UNDEF THEN 400
                   ELSE req.stream.raw.status.v
       /\ status # 500
       /\ response.body.errors =
            BodyError(IF req.stream.raw.type = "encoding.unsupported"
                      THEN "unsupported-charset" ELSE "invalid-body")
       /\ response.body.data = UNDEF
       /\ calls.execute = 0
  /\ (Completed /\ ExecuteFailed /\ ~ExtensionsThrew) =>
       /\ status = 400
       /\ response.body.errors = BodyError("context-error")
       /\ response.body.data = UNDEF
       /\ calls.execute = 1

C14_Witness ==
  /\ Completed /\ StreamFailed /\ req.stream.raw.type = "request.aborted"
  /\ status = 400 /\ response.body.errors = BodyError("invalid-body")

\* the stream was read, and its text is the body under application/json
JsonText ==
  /\ req.contentType.k = "media" /\ req.contentType.type = "application/json"
  /\ calls.getBody = 1 /\ req.stream.ok
\* the text's first character that is no space, tab, line feed or carriage
\* return is "{"
OpensObject(text) ==
  \E i \in DOMAIN text :
    /\ text[i] = "{"
    /\ \A j \in 1..(i - 1) : text[j] \in {" ", "\t", "\n", "\r"}
\* parse, validate and execute were left alone
EngineIdle ==
  /\ calls.validateSchema = 0 /\ calls.parse = 0 /\ calls.validate = 0
  /\ calls.getOperationAST = 0 /\ calls.execute = 0

\* C15: a body under application/json whose text, leading space, tab, line
\* feed and carriage return skipped, does not start with "{", or is no valid
\* JSON, is the 400 of a malformed body, and the engine is never called.
C15_MalformedJson ==
  (ParamsDone /\ JsonText
     /\ (~OpensObject(req.stream.text) \/ ~JSONParse(req.stream.text).ok)) =>
    /\ caught = HttpError(400, "invalid-json")
    /\ EngineIdle
    /\ calls.extensions = 0
    /\ Completed =>
         /\ status = 400
         /\ response.body = Result(BodyError("invalid-json"), UNDEF)

C15_Witness ==
  /\ Completed /\ JsonText /\ req.stream.text = <<"[", "1", "]">>
  /\ JSONParse(req.stream.text).ok
  /\ status = 400 /\ response.body.errors = BodyError("invalid-json")

\* parseBody hands the request to readBody: a Content-Type it can parse, and
\* no body from upstream (a falsy one counts as none) but for the empty text
\* under application/graphql, which is the query
DecoderRuns ==
  /\ req.contentType.k = "media"
  /\ req.body \in {UNDEF, Str(<<>>), Num(0), Bool(FALSE)}
  /\ ~(req.body = Str(<<>>) /\ req.contentType.type = "application/graphql")
\* the charset is given and its name, in lower case, does not start with utf-
BadCharset ==
  /\ req.contentType.charset # UNDEF
  /\ \/ Len(req.contentType.charset.v) < 4
     \/ ToLowerCase(SubSeq(req.contentType.charset.v, 1, 4)) # <<"u", "t", "f", "-">>
\* the Content-Encoding is given and, in lower case, none of the three
BadEncoding ==
  /\ req.contentEncoding # UNDEF
  /\ ToLowerCase(req.contentEncoding.v) \notin
       { <<"i", "d", "e", "n", "t", "i", "t", "y">>,
         <<"d", "e", "f", "l", "a", "t", "e">>, <<"g", "z", "i", "p">> }

\* C16: when the decoder runs, a Content-Encoding that is none of identity,
\* deflate and gzip, or a charset whose name does not start with utf-, case
\* ignored in both, fails the request with a 415 before the stream is read
\* and before the engine is called; with neither, a stream that is read and
\* a media type that is none of the three recognised give an empty mapping.
C16_UnsupportedMedia ==
  (ParamsDone /\ DecoderRuns) =>
    /\ (BadCharset \/ BadEncoding) =>
         /\ caught = HttpError(415, IF BadCharset THEN "unsupported-charset"
                                    ELSE "unsupported-encoding")
         /\ calls.getBody = 0
         /\ EngineIdle
         /\ Completed =>
              /\ status = 415
              /\ response.body.errors = BodyError(caught.tag)
              /\ response.body.data = UNDEF
    /\ (~BadCharset /\ ~BadEncoding) => calls.getBody = 1
    /\ (~BadCharset /\ ~BadEncoding /\ req.stream.ok
          /\ req.contentType.type \notin
               {"application/graphql", "application/json",
                "application/x-www-form-urlencoded"}) =>
         /\ parseBody(req, req.body).ok
         /\ BodyData = EmptyObj

C16_Witness ==
  /\ Completed /\ DecoderRuns /\ ~BadCharset
  /\ req.contentType.charset = Str(<<"U", "T", "F", "-", "8">>)
  /\ req.contentEncoding = Str(<<"b", "r">>)
  /\ status = 415 /\ calls.getBody = 0

\* C17: a completed response with status 200 means that execute was called
\* exactly once, after validateSchema, parse and validate each ran once and
\* reported nothing (and, over GET, after the operation check found no
\* mutation or subscription selected), and that it returned a result with
\* data; no other path ends with a 200.
C17_Status200 ==
  (Completed /\ status = 200) =>
    /\ calls.execute = 1
    /\ calls.validateSchema = 1 /\ calls.parse = 1 /\ calls.validate = 1
    /\ options.schema = "valid"
    /\ document \in Documents
    /\ Truthy(params.query)
    /\ method = "GET" => (calls.getOperationAST = 1 /\ ~NonQuerySelected)
    /\ method = "POST" => calls.getOperationAST = 0
    /\ outcome = Outcome("Success", 200, TRUE)
    /\ caught = NoError
    /\ Truthy(response.body.data)

C17_Witness ==
  /\ Completed /\ status = 200 /\ method = "GET" /\ Len(document) = 2
  /\ calls.execute = 1 /\ response.body.errors # UNDEF
  /\ response.body.extensions # UNDEF
=============================================================================
